---- MODULE Spec2Model ----
(***************************************************************************)
(* Jules::utils::CrossThreadQueue<T> (src/cross_thread_queue.hpp): one     *)
(* queue instance shared by the threads of Threads.  Every member function *)
(* is a sequence of steps taken by the calling thread between the          *)
(* construction of its std::unique_lock and its return; pc[t] is the       *)
(* position of thread t inside the function named by op[t].                *)
(*                                                                         *)
(* An item is a value of T together with an identity given by the caller   *)
(* (id), so that two equal values pushed twice can be told apart; T's      *)
(* operator== compares val only.                                           *)
(***************************************************************************)
EXTENDS Integers, Sequences, FiniteSets

\* ---------------------------------------------------------------- bounds
\* Items the callers create over a run (arguments of Try_Push and Push).
MaxItems == 3
\* Largest capacity passed to SetMaxCount.
MaxCap == 2
\* Longest vector passed to Try_Push(ts) and Push(ts).
MaxBatch == 2
\* Largest num passed to Pop(num).
MaxNum == 2
\* Resources of the example's pool: resource_num, 200 in src/example.cpp, and
\* the count its main thread waits for.
NumResources == 2

\* The calling threads, and the owner of an unlocked mutex.
Threads == {"t1", "t2"}
NoThread == "nobody"
\* The values of T; two of them, so that a queue can hold equal items.
Values == {"a", "b"}
\* A default-constructed T (std::vector<T> ts(sz) in Pop(num)).
NoItem == [id |-> 0, val |-> "default"]
\* std::numeric_limits<size_t>::max(), the default of max_count_.  It stands
\* for 2^64 - 1: no size or argument of the model comes near it, so the
\* comparisons against it come out as they do in 64 bits.
SIZE_MAX == 2147483647
\* What a build does with pop_front() on an empty std::deque inside the
\* loop of SetMaxCount, whose condition size() >= 0 cannot become false:
\* the process dies, or the call spins for ever with the mutex held.
FaultOutcomes == {"crash", "hang"}

VARIABLES
    queue_,       \* std::deque<T> queue_, front first
    max_count_,   \* std::size_t max_count_
    mutex_,       \* std::mutex mutex_: the thread that owns it, or NoThread
    pc,           \* pc[t]: position of thread t in its call ("idle": no call)
    op,           \* op[t]: the member function thread t is in
    num,          \* num[t]: the size_t argument (ic of SetMaxCount, num of Pop)
    arg,          \* arg[t]: the const T & argument
    batch,        \* batch[t]: the const std::vector<T> & argument
    ts,           \* ts[t]: the local vector of Pop(num), its return value
    sz,           \* sz[t]: the local sz of Pop(num)
    idx,          \* idx[t]: the loop position (i, k, or the range-for position)
    want_out,     \* want_out[t]: Pop(T *t) was given a non-null pointer
    out,          \* out[t]: the object the T * argument points to
    ret,          \* ret[t]: the bool a call returns
    rsize,        \* rsize[t]: the size_t a call returns
    entry_queue,  \* history: queue_ when t's call took the mutex
    entry_max,    \* history: max_count_ when t's call took the mutex
    nextId,       \* identity of the next item a caller creates
    pushed,       \* history: ids in the order push_back stored them
    popped,       \* history: ids in the order the pops handed them out
    evicted,      \* history: ids removed by pop_front in SetMaxCount and Push
    erased,       \* history: ids removed by Erase and Clear
    fault,        \* "none", or the outcome of undefined behaviour
    \* src/example.cpp: five queues, five workers and the main thread
    que,          \* que[q]: the deque of queue q (max_count_ stays SIZE_MAX)
    running,      \* std::atomic<bool> running
    made,         \* resources the main thread has created (its loop's i)
    mpc,          \* position of the main thread
    wpc,          \* wpc[w]: position of worker w
    data          \* data[w]: the local vector of worker w

params == <<num, arg, batch, want_out>>
frame == <<ts, sz, idx, out, ret, rsize>>
entry == <<entry_queue, entry_max>>
ghost == <<pushed, popped, evicted, erased>>
example == <<que, running, made, mpc, wpc, data>>
one_queue == <<queue_, max_count_, mutex_, pc, op, params, frame, entry, nextId,
               ghost, fault>>
vars == <<one_queue, example>>

\* The queues of the example and its worker threads workers[0..4].
Queues == {"que_vacant", "que_worker0", "que_worker10", "que_worker11",
           "que_result"}
Workers == 0..4

\* ------------------------------------------------------- std::deque<T>
Min(a, b) == IF a < b THEN a ELSE b

RECURSIVE Ids(_)
Ids(q) == IF q = <<>> THEN <<>> ELSE <<Head(q).id>> \o Ids(Tail(q))

Range(s) == {s[n] : n \in 1..Len(s)}

\* queue_.push_back(x)
PushBack_front(q, x) == <<x>> \o q
PushBack(q, x) == Append(q, x)

\* queue_.front()
Front_back(q) == q[Len(q)]
Front(q) == Head(q)

\* queue_.pop_front()
PopFront_back(q) == SubSeq(q, 1, Len(q) - 1)
PopFront(q) == Tail(q)

\* queue_.erase(queue_.begin() + k), k counted from 0
EraseAt_before(q, k) == SubSeq(q, 1, k - 1) \o SubSeq(q, k + 1, Len(q))
EraseAt(q, k) == SubSeq(q, 1, k) \o SubSeq(q, k + 2, Len(q))

\* ------------------------------------------------------------ the calls
Running == fault = "none"

\* std::unique_lock<std::mutex> lck(mutex_): blocks until the mutex is free
Lockable_always(t) == TRUE
Lockable(t) == mutex_ = NoThread

\* T's operator==
Equal(x, y) == x.val = y.val

\* The vectors a caller builds from the values vs: fresh items, in order.
MakeBatch(vs) == [j \in 1..Len(vs) |-> [id |-> nextId + j - 1, val |-> vs[j]]]

\* Thread t enters member function f: the lock is taken, and the state the
\* call starts from is the one it finds then.
Enter(t, f, at) ==
    /\ Running
    /\ pc[t] = "idle"
    /\ Lockable(t)
    /\ UNCHANGED example
    /\ mutex_' = t
    /\ pc' = [pc EXCEPT ![t] = at]
    /\ op' = [op EXCEPT ![t] = f]
    /\ entry_queue' = [entry_queue EXCEPT ![t] = queue_]
    /\ entry_max' = [entry_max EXCEPT ![t] = max_count_]

\* Thread t is at position `at` of f.
At(t, f, at) == Running /\ op[t] = f /\ pc[t] = at /\ UNCHANGED example

Goto(t, at) == pc' = [pc EXCEPT ![t] = at]

\* pop_front() or front() on an empty deque: undefined behaviour.
Fault(t) ==
    /\ fault' \in FaultOutcomes
    /\ Goto(t, "ub")
    /\ UNCHANGED <<queue_, max_count_, mutex_, op, params, frame, entry, nextId,
                   ghost>>

\* The return of any call: lck is destroyed, the frame is gone.
Return(t) ==
    /\ Running
    /\ pc[t] = "ret"
    /\ mutex_' = NoThread
    /\ pc' = [pc EXCEPT ![t] = "idle"]
    /\ op' = [op EXCEPT ![t] = "none"]
    /\ num' = [num EXCEPT ![t] = 0]
    /\ arg' = [arg EXCEPT ![t] = NoItem]
    /\ batch' = [batch EXCEPT ![t] = <<>>]
    /\ want_out' = [want_out EXCEPT ![t] = FALSE]
    /\ ts' = [ts EXCEPT ![t] = <<>>]
    /\ sz' = [sz EXCEPT ![t] = 0]
    /\ idx' = [idx EXCEPT ![t] = 0]
    /\ out' = [out EXCEPT ![t] = NoItem]
    /\ ret' = [ret EXCEPT ![t] = FALSE]
    /\ rsize' = [rsize EXCEPT ![t] = 0]
    /\ entry_queue' = [entry_queue EXCEPT ![t] = <<>>]
    /\ entry_max' = [entry_max EXCEPT ![t] = 0]
    /\ UNCHANGED <<queue_, max_count_, nextId, ghost, fault, example>>

Init ==
    /\ queue_ = <<>>
    /\ max_count_ = SIZE_MAX
    /\ mutex_ = NoThread
    /\ pc = [t \in Threads |-> "idle"]
    /\ op = [t \in Threads |-> "none"]
    /\ num = [t \in Threads |-> 0]
    /\ arg = [t \in Threads |-> NoItem]
    /\ batch = [t \in Threads |-> <<>>]
    /\ want_out = [t \in Threads |-> FALSE]
    /\ ts = [t \in Threads |-> <<>>]
    /\ sz = [t \in Threads |-> 0]
    /\ idx = [t \in Threads |-> 0]
    /\ out = [t \in Threads |-> NoItem]
    /\ ret = [t \in Threads |-> FALSE]
    /\ rsize = [t \in Threads |-> 0]
    /\ entry_queue = [t \in Threads |-> <<>>]
    /\ entry_max = [t \in Threads |-> 0]
    /\ nextId = 1
    /\ pushed = <<>>
    /\ popped = <<>>
    /\ evicted = {}
    /\ erased = {}
    /\ fault = "none"
    /\ que = [q \in Queues |-> <<>>]
    /\ running = FALSE
    /\ made = 0
    /\ mpc = "fill"
    /\ wpc = [w \in Workers |-> "unborn"]
    /\ data = [w \in Workers |-> <<>>]

\* ---------------------------------------------------------- SetMaxCount
SetMaxCount_Call(t, ic) ==
    /\ Enter(t, "SetMaxCount", "smc_set")
    /\ num' = [num EXCEPT ![t] = ic]
    /\ UNCHANGED <<queue_, max_count_, arg, batch, want_out, frame, nextId,
                   ghost, fault>>

\* max_count_ = ic;
SetMaxCount_Set(t) ==
    /\ At(t, "SetMaxCount", "smc_set")
    /\ max_count_' = num[t]
    /\ Goto(t, "smc_loop")
    /\ UNCHANGED <<queue_, mutex_, op, params, frame, entry, nextId, ghost,
                   fault>>

\* while (queue_.size() >= max_count_)
ShrinkMore(size, mx) == size >= mx

\* while (queue_.size() >= max_count_) queue_.pop_front();
SetMaxCount_Loop(t) ==
    /\ At(t, "SetMaxCount", "smc_loop")
    /\ IF ShrinkMore(Len(queue_), max_count_)
       THEN IF queue_ = <<>>
            THEN Fault(t)
            ELSE /\ queue_' = PopFront(queue_)
                 /\ evicted' = evicted \cup {Front(queue_).id}
                 /\ UNCHANGED <<max_count_, mutex_, pc, op, params, frame,
                                entry, nextId, pushed, popped, erased, fault>>
       ELSE /\ Goto(t, "ret")
            /\ UNCHANGED <<queue_, max_count_, mutex_, op, params, frame, entry,
                           nextId, ghost, fault>>

\* ------------------------------------- GetMaxCount, Size, Full, Empty
GetMaxCount == max_count_
Size == Len(queue_)
Full == Len(queue_) = max_count_
Empty == queue_ = <<>>

GetMaxCount_Call(t) ==
    /\ Enter(t, "GetMaxCount", "ret")
    /\ rsize' = [rsize EXCEPT ![t] = GetMaxCount]
    /\ UNCHANGED <<queue_, max_count_, params, ts, sz, idx, out, ret, nextId,
                   ghost, fault>>

Size_Call(t) ==
    /\ Enter(t, "Size", "ret")
    /\ rsize' = [rsize EXCEPT ![t] = Size]
    /\ UNCHANGED <<queue_, max_count_, params, ts, sz, idx, out, ret, nextId,
                   ghost, fault>>

Full_Call(t) ==
    /\ Enter(t, "Full", "ret")
    /\ ret' = [ret EXCEPT ![t] = Full]
    /\ UNCHANGED <<queue_, max_count_, params, ts, sz, idx, out, rsize, nextId,
                   ghost, fault>>

Empty_Call(t) ==
    /\ Enter(t, "Empty", "ret")
    /\ ret' = [ret EXCEPT ![t] = Empty]
    /\ UNCHANGED <<queue_, max_count_, params, ts, sz, idx, out, rsize, nextId,
                   ghost, fault>>

\* ----------------------------------------------------- Try_Push(const T &)
Try_Push_Call(t, v) ==
    /\ nextId <= MaxItems
    /\ Enter(t, "Try_Push", "tp_check")
    /\ arg' = [arg EXCEPT ![t] = [id |-> nextId, val |-> v]]
    /\ nextId' = nextId + 1
    /\ UNCHANGED <<queue_, max_count_, num, batch, want_out, frame, ghost,
                   fault>>

\* if (queue_.size() < max_count_)
HasRoom_orFull(size, mx) == size <= mx
HasRoom(size, mx) == size < mx

\* if (queue_.size() < max_count_) ... return false;
Try_Push_Check(t) ==
    /\ At(t, "Try_Push", "tp_check")
    /\ IF HasRoom(Len(queue_), max_count_)
       THEN /\ Goto(t, "tp_push")
            /\ UNCHANGED ret
       ELSE /\ Goto(t, "ret")
            /\ ret' = [ret EXCEPT ![t] = FALSE]
    /\ UNCHANGED <<queue_, max_count_, mutex_, op, params, ts, sz, idx, out,
                   rsize, entry, nextId, ghost, fault>>

\* queue_.push_back(t); return true;
Try_Push_Push(t) ==
    /\ At(t, "Try_Push", "tp_push")
    /\ queue_' = PushBack(queue_, arg[t])
    /\ pushed' = Append(pushed, arg[t].id)
    /\ ret' = [ret EXCEPT ![t] = TRUE]
    /\ Goto(t, "ret")
    /\ UNCHANGED <<max_count_, mutex_, op, params, ts, sz, idx, out, rsize,
                   entry, nextId, popped, evicted, erased, fault>>

\* ----------------------------------- Try_Push(const std::vector<T> &)
Try_PushBatch_Call(t, vs) ==
    /\ nextId + Len(vs) - 1 <= MaxItems
    /\ Enter(t, "Try_PushBatch", "tpb_check")
    /\ batch' = [batch EXCEPT ![t] = MakeBatch(vs)]
    /\ nextId' = nextId + Len(vs)
    /\ UNCHANGED <<queue_, max_count_, num, arg, want_out, frame, ghost, fault>>

\* if (ts.size() + queue_.size() > max_count_)
BatchTooLong_full(n, size, mx) == size >= mx
BatchTooLong(n, size, mx) == n + size > mx

\* if (ts.size() + queue_.size() > max_count_) return false;
Try_PushBatch_Check(t) ==
    /\ At(t, "Try_PushBatch", "tpb_check")
    /\ IF BatchTooLong(Len(batch[t]), Len(queue_), max_count_)
       THEN /\ Goto(t, "ret")
            /\ ret' = [ret EXCEPT ![t] = FALSE]
            /\ UNCHANGED idx
       ELSE /\ Goto(t, "tpb_loop")
            /\ idx' = [idx EXCEPT ![t] = 1]
            /\ UNCHANGED ret
    /\ UNCHANGED <<queue_, max_count_, mutex_, op, params, ts, sz, out, rsize,
                   entry, nextId, ghost, fault>>

\* The value of the return statement that ends Try_Push(ts) after the loop.
Try_PushBatch_Result == FALSE

\* for (auto &t : ts) queue_.push_back(t); return false;
Try_PushBatch_Loop(t) ==
    /\ At(t, "Try_PushBatch", "tpb_loop")
    /\ IF idx[t] <= Len(batch[t])
       THEN /\ queue_' = PushBack(queue_, batch[t][idx[t]])
            /\ pushed' = Append(pushed, batch[t][idx[t]].id)
            /\ idx' = [idx EXCEPT ![t] = idx[t] + 1]
            /\ UNCHANGED <<pc, ret>>
       ELSE /\ Goto(t, "ret")
            /\ ret' = [ret EXCEPT ![t] = Try_PushBatch_Result]
            /\ UNCHANGED <<queue_, pushed, idx>>
    /\ UNCHANGED <<max_count_, mutex_, op, params, ts, sz, out, rsize, entry,
                   nextId, popped, evicted, erased, fault>>

\* --------------------------------------------------------- Push(const T &)
Push_Call(t, v) ==
    /\ nextId <= MaxItems
    /\ Enter(t, "Push", "push_back")
    /\ arg' = [arg EXCEPT ![t] = [id |-> nextId, val |-> v]]
    /\ nextId' = nextId + 1
    /\ UNCHANGED <<queue_, max_count_, num, batch, want_out, frame, ghost,
                   fault>>

\* queue_.push_back(t);
Push_Back(t) ==
    /\ At(t, "Push", "push_back")
    /\ queue_' = PushBack(queue_, arg[t])
    /\ pushed' = Append(pushed, arg[t].id)
    /\ Goto(t, "push_evict")
    /\ UNCHANGED <<max_count_, mutex_, op, params, frame, entry, nextId, popped,
                   evicted, erased, fault>>

\* if (queue_.size() > max_count_)
Overfull_late(size, mx) == size - 1 > mx
Overfull(size, mx) == size > mx

\* if (queue_.size() > max_count_) queue_.pop_front();
Push_Evict(t) ==
    /\ At(t, "Push", "push_evict")
    /\ IF Overfull(Len(queue_), max_count_)
       THEN IF queue_ = <<>>
            THEN Fault(t)
            ELSE /\ queue_' = PopFront(queue_)
                 /\ evicted' = evicted \cup {Front(queue_).id}
                 /\ Goto(t, "ret")
                 /\ UNCHANGED <<max_count_, mutex_, op, params, frame, entry,
                                nextId, pushed, popped, erased, fault>>
       ELSE /\ Goto(t, "ret")
            /\ UNCHANGED <<queue_, max_count_, mutex_, op, params, frame, entry,
                           nextId, ghost, fault>>

\* Push(const T &) from lock to return, as a function of the queue it finds.
PushOne(q, x, mx) ==
    LET q1 == PushBack(q, x)
    IN  IF Overfull(Len(q1), mx) THEN PopFront(q1) ELSE q1

\* --------------------------------------- Push(const std::vector<T> &)
PushBatch_Call(t, vs) ==
    /\ nextId + Len(vs) - 1 <= MaxItems
    /\ Enter(t, "PushBatch", "pb_loop")
    /\ batch' = [batch EXCEPT ![t] = MakeBatch(vs)]
    /\ idx' = [idx EXCEPT ![t] = 1]
    /\ nextId' = nextId + Len(vs)
    /\ UNCHANGED <<queue_, max_count_, num, arg, want_out, ts, sz, out, ret,
                   rsize, ghost, fault>>

\* for (auto &t : ts) { queue_.push_back(t);
PushBatch_Loop(t) ==
    /\ At(t, "PushBatch", "pb_loop")
    /\ IF idx[t] <= Len(batch[t])
       THEN /\ queue_' = PushBack(queue_, batch[t][idx[t]])
            /\ pushed' = Append(pushed, batch[t][idx[t]].id)
            /\ Goto(t, "pb_evict")
       ELSE /\ Goto(t, "ret")
            /\ UNCHANGED <<queue_, pushed>>
    /\ UNCHANGED <<max_count_, mutex_, op, params, frame, entry, nextId, popped,
                   evicted, erased, fault>>

\* if (queue_.size() >= max_count_)
BatchOverfull(size, mx) == size >= mx

\* if (queue_.size() >= max_count_) { queue_.pop_front(); } }
PushBatch_Evict(t) ==
    /\ At(t, "PushBatch", "pb_evict")
    /\ IF BatchOverfull(Len(queue_), max_count_)
       THEN IF queue_ = <<>>
            THEN Fault(t)
            ELSE /\ queue_' = PopFront(queue_)
                 /\ evicted' = evicted \cup {Front(queue_).id}
                 /\ Goto(t, "pb_loop")
                 /\ idx' = [idx EXCEPT ![t] = idx[t] + 1]
                 /\ UNCHANGED <<max_count_, mutex_, op, params, ts, sz, out,
                                ret, rsize, entry, nextId, pushed, popped,
                                erased, fault>>
       ELSE /\ Goto(t, "pb_loop")
            /\ idx' = [idx EXCEPT ![t] = idx[t] + 1]
            /\ UNCHANGED <<queue_, max_count_, mutex_, op, params, ts, sz, out,
                           ret, rsize, entry, nextId, ghost, fault>>

\* ------------------------------------------------------------- Pop_Must
Pop_Must_Call(t) ==
    /\ Enter(t, "Pop_Must", "pm_check")
    /\ UNCHANGED <<queue_, max_count_, params, frame, nextId, ghost, fault>>

\* while (queue_.empty())
Pop_Must_Check(t) ==
    /\ At(t, "Pop_Must", "pm_check")
    /\ IF Empty THEN Goto(t, "pm_sleep") ELSE Goto(t, "pm_copy")
    /\ UNCHANGED <<queue_, max_count_, mutex_, op, params, frame, entry, nextId,
                   ghost, fault>>

\* std::this_thread::sleep_for(10ms);
Pop_Must_Sleep(t) ==
    /\ At(t, "Pop_Must", "pm_sleep")
    /\ Goto(t, "pm_check")
    /\ UNCHANGED <<queue_, max_count_, mutex_, op, params, frame, entry, nextId,
                   ghost, fault>>

\* *t = queue_.front();
Pop_Must_Copy(t) ==
    /\ At(t, "Pop_Must", "pm_copy")
    /\ IF queue_ = <<>>
       THEN Fault(t)
       ELSE /\ out' = [out EXCEPT ![t] = Front(queue_)]
            /\ popped' = Append(popped, Front(queue_).id)
            /\ Goto(t, "pm_pop")
            /\ UNCHANGED <<queue_, max_count_, mutex_, op, params, ts, sz, idx,
                           ret, rsize, entry, nextId, pushed, evicted, erased,
                           fault>>

\* queue_.pop_front(); return true;
Pop_Must_PopFront(t) ==
    /\ At(t, "Pop_Must", "pm_pop")
    /\ IF queue_ = <<>>
       THEN Fault(t)
       ELSE /\ queue_' = PopFront(queue_)
            /\ ret' = [ret EXCEPT ![t] = TRUE]
            /\ Goto(t, "ret")
            /\ UNCHANGED <<max_count_, mutex_, op, params, ts, sz, idx, out,
                           rsize, entry, nextId, ghost, fault>>

\* ------------------------------------------------------------- Pop(T *)
Pop_Call(t, given) ==
    /\ Enter(t, "Pop", "pop_check")
    /\ want_out' = [want_out EXCEPT ![t] = given]
    /\ UNCHANGED <<queue_, max_count_, num, arg, batch, frame, nextId, ghost,
                   fault>>

\* if (queue_.empty()) return false;
Pop_Check(t) ==
    /\ At(t, "Pop", "pop_check")
    /\ IF Empty
       THEN /\ Goto(t, "ret")
            /\ ret' = [ret EXCEPT ![t] = FALSE]
       ELSE /\ Goto(t, "pop_copy")
            /\ UNCHANGED ret
    /\ UNCHANGED <<queue_, max_count_, mutex_, op, params, ts, sz, idx, out,
                   rsize, entry, nextId, ghost, fault>>

\* if (t) *t = queue_.front();
Pop_Copy(t) ==
    /\ At(t, "Pop", "pop_copy")
    /\ IF want_out[t]
       THEN IF queue_ = <<>>
            THEN Fault(t)
            ELSE /\ out' = [out EXCEPT ![t] = Front(queue_)]
                 /\ popped' = Append(popped, Front(queue_).id)
                 /\ Goto(t, "pop_front")
                 /\ UNCHANGED <<queue_, max_count_, mutex_, op, params, ts, sz,
                                idx, ret, rsize, entry, nextId, pushed, evicted,
                                erased, fault>>
       ELSE /\ Goto(t, "pop_front")
            /\ UNCHANGED <<queue_, max_count_, mutex_, op, params, frame, entry,
                           nextId, ghost, fault>>

\* queue_.pop_front(); return true;  (an item popped into no object is
\* counted as popped here)
Pop_PopFront(t) ==
    /\ At(t, "Pop", "pop_front")
    /\ IF queue_ = <<>>
       THEN Fault(t)
       ELSE /\ queue_' = PopFront(queue_)
            /\ popped' = IF want_out[t] THEN popped
                         ELSE Append(popped, Front(queue_).id)
            /\ ret' = [ret EXCEPT ![t] = TRUE]
            /\ Goto(t, "ret")
            /\ UNCHANGED <<max_count_, mutex_, op, params, ts, sz, idx, out,
                           rsize, entry, nextId, pushed, evicted, erased, fault>>

\* ------------------------------------------------------ Pop(std::size_t)
PopN_Call(t, n) ==
    /\ Enter(t, "PopN", "popn_init")
    /\ num' = [num EXCEPT ![t] = n]
    /\ UNCHANGED <<queue_, max_count_, arg, batch, want_out, frame, nextId,
                   ghost, fault>>

\* auto sz = std::min(num, queue_.size());
PopCount_num(n, size) == n
PopCount(n, size) == Min(n, size)

\* auto sz = std::min(num, queue_.size()); std::vector<T> ts(sz);
PopN_Init(t) ==
    /\ At(t, "PopN", "popn_init")
    /\ sz' = [sz EXCEPT ![t] = PopCount(num[t], Len(queue_))]
    /\ ts' = [ts EXCEPT ![t] = [j \in 1..sz'[t] |-> NoItem]]
    /\ idx' = [idx EXCEPT ![t] = 0]
    /\ Goto(t, "popn_loop")
    /\ UNCHANGED <<queue_, max_count_, mutex_, op, params, out, ret, rsize,
                   entry, nextId, ghost, fault>>

\* for (size_t i = 0; i < sz; i++) { ts[i] = queue_.front();
PopN_Loop(t) ==
    /\ At(t, "PopN", "popn_loop")
    /\ IF idx[t] < sz[t]
       THEN IF queue_ = <<>>
            THEN Fault(t)
            ELSE /\ ts' = [ts EXCEPT ![t][idx[t] + 1] = Front(queue_)]
                 /\ popped' = Append(popped, Front(queue_).id)
                 /\ Goto(t, "popn_pop")
                 /\ UNCHANGED <<queue_, max_count_, mutex_, op, params, sz, idx,
                                out, ret, rsize, entry, nextId, pushed, evicted,
                                erased, fault>>
       ELSE /\ Goto(t, "ret")
            /\ UNCHANGED <<queue_, max_count_, mutex_, op, params, frame, entry,
                           nextId, ghost, fault>>

\* queue_.pop_front(); }  (and i++)
PopN_PopFront(t) ==
    /\ At(t, "PopN", "popn_pop")
    /\ IF queue_ = <<>>
       THEN Fault(t)
       ELSE /\ queue_' = PopFront(queue_)
            /\ idx' = [idx EXCEPT ![t] = idx[t] + 1]
            /\ Goto(t, "popn_loop")
            /\ UNCHANGED <<max_count_, mutex_, op, params, ts, sz, out, ret,
                           rsize, entry, nextId, ghost, fault>>

\* ---------------------------------------------------------------- Clear
Clear_Call(t) ==
    /\ Enter(t, "Clear", "clear")
    /\ UNCHANGED <<queue_, max_count_, params, frame, nextId, ghost, fault>>

\* queue_.clear();
Clear_Clear_front(t) ==
    /\ At(t, "Clear", "clear")
    /\ queue_' = IF queue_ = <<>> THEN queue_ ELSE PopFront(queue_)
    /\ erased' = IF queue_ = <<>> THEN erased
                 ELSE erased \cup {Front(queue_).id}
    /\ Goto(t, "ret")
    /\ UNCHANGED <<max_count_, mutex_, op, params, frame, entry, nextId, pushed,
                   popped, evicted, fault>>
Clear_Clear(t) ==
    /\ At(t, "Clear", "clear")
    /\ queue_' = <<>>
    /\ erased' = erased \cup Range(Ids(queue_))
    /\ Goto(t, "ret")
    /\ UNCHANGED <<max_count_, mutex_, op, params, frame, entry, nextId, pushed,
                   popped, evicted, fault>>

\* ---------------------------------------------------------------- Erase
Erase_Call(t, v) ==
    /\ Enter(t, "Erase", "erase_loop")
    /\ arg' = [arg EXCEPT ![t] = [id |-> 0, val |-> v]]
    /\ UNCHANGED <<queue_, max_count_, num, batch, want_out, frame, nextId,
                   ghost, fault>>

\* for (k = 0; k < queue_.size(); k++)
\*     if (t == queue_.at(k)) { queue_.erase(queue_.begin() + k); return true; }
\* return false;
Erase_Loop(t) ==
    /\ At(t, "Erase", "erase_loop")
    /\ IF idx[t] < Len(queue_)
       THEN IF Equal(arg[t], queue_[idx[t] + 1])
            THEN /\ queue_' = EraseAt(queue_, idx[t])
                 /\ erased' = erased \cup {queue_[idx[t] + 1].id}
                 /\ ret' = [ret EXCEPT ![t] = TRUE]
                 /\ Goto(t, "ret")
                 /\ UNCHANGED idx
            ELSE /\ idx' = [idx EXCEPT ![t] = idx[t] + 1]
                 /\ UNCHANGED <<queue_, erased, ret, pc>>
       ELSE /\ ret' = [ret EXCEPT ![t] = FALSE]
            /\ Goto(t, "ret")
            /\ UNCHANGED <<queue_, erased, idx>>
    /\ UNCHANGED <<max_count_, mutex_, op, params, ts, sz, out, rsize, entry,
                   nextId, pushed, popped, evicted, fault>>

\* --------------------------------------------------------- the program
Batches == UNION {[1..n -> Values] : n \in 0..MaxBatch}

Next ==
    \E t \in Threads :
        \/ \E ic \in 0..MaxCap : SetMaxCount_Call(t, ic)
        \/ SetMaxCount_Set(t)
        \/ SetMaxCount_Loop(t)
        \/ GetMaxCount_Call(t)
        \/ Size_Call(t)
        \/ Full_Call(t)
        \/ Empty_Call(t)
        \/ \E v \in Values : Try_Push_Call(t, v)
        \/ Try_Push_Check(t)
        \/ Try_Push_Push(t)
        \/ \E vs \in Batches : Try_PushBatch_Call(t, vs)
        \/ Try_PushBatch_Check(t)
        \/ Try_PushBatch_Loop(t)
        \/ \E v \in Values : Push_Call(t, v)
        \/ Push_Back(t)
        \/ Push_Evict(t)
        \/ \E vs \in Batches : PushBatch_Call(t, vs)
        \/ PushBatch_Loop(t)
        \/ PushBatch_Evict(t)
        \/ Pop_Must_Call(t)
        \/ Pop_Must_Check(t)
        \/ Pop_Must_Sleep(t)
        \/ Pop_Must_Copy(t)
        \/ Pop_Must_PopFront(t)
        \/ \E given \in BOOLEAN : Pop_Call(t, given)
        \/ Pop_Check(t)
        \/ Pop_Copy(t)
        \/ Pop_PopFront(t)
        \/ \E n \in 0..MaxNum : PopN_Call(t, n)
        \/ PopN_Init(t)
        \/ PopN_Loop(t)
        \/ PopN_PopFront(t)
        \/ Clear_Call(t)
        \/ Clear_Clear(t)
        \/ \E v \in Values : Erase_Call(t, v)
        \/ Erase_Loop(t)
        \/ Return(t)

Spec == Init /\ [][Next]_vars

\* A step of thread t inside the member function it has entered.
Step(t) ==
    \/ SetMaxCount_Set(t) \/ SetMaxCount_Loop(t)
    \/ Try_Push_Check(t) \/ Try_Push_Push(t)
    \/ Try_PushBatch_Check(t) \/ Try_PushBatch_Loop(t)
    \/ Push_Back(t) \/ Push_Evict(t)
    \/ PushBatch_Loop(t) \/ PushBatch_Evict(t)
    \/ Pop_Must_Check(t) \/ Pop_Must_Sleep(t) \/ Pop_Must_Copy(t)
    \/ Pop_Must_PopFront(t)
    \/ Pop_Check(t) \/ Pop_Copy(t) \/ Pop_PopFront(t)
    \/ PopN_Init(t) \/ PopN_Loop(t) \/ PopN_PopFront(t)
    \/ Clear_Clear(t)
    \/ Erase_Loop(t)
    \/ Return(t)

\* Fair scheduling: a thread inside a member function goes on running, and
\* a thread that can enter Push (it is idle and the mutex is free) does so.
FairSpec ==
    /\ Spec
    /\ \A t \in Threads :
        /\ WF_vars(Step(t))
        /\ WF_vars(\E v \in Values : Push_Call(t, v))

\* ---------------------------------------------------- src/example.cpp
\* Each call on a queue of the example is one step: it runs from lock to
\* return under the mutex of its queue.  The calls are computed here as
\* functions of the deque they find, statement by statement.

\* for (i = 0; i < sz; i++) { ts[i] = queue_.front(); queue_.pop_front(); }
RECURSIVE PopLoop(_, _, _)
PopLoop(q, got, left) ==
    IF left = 0 THEN [ts |-> got, rest |-> q]
    ELSE PopLoop(PopFront(q), Append(got, Front(q)), left - 1)

\* Pop(num): the vector returned and the deque left.
PopResult_peek(q, n) == [ts |-> SubSeq(q, 1, PopCount(n, Len(q))), rest |-> q]
PopResult(q, n) == PopLoop(q, <<>>, PopCount(n, Len(q)))

\* Push(ts): the deque left.
RECURSIVE PushBatchResult(_, _, _)
PushBatchResult(q, xs, mx) ==
    IF xs = <<>> THEN q
    ELSE LET q1 == PushBack(q, Head(xs))
         IN  PushBatchResult(IF BatchOverfull(Len(q1), mx) THEN PopFront(q1)
                             ELSE q1,
                             Tail(xs), mx)

\* workers.emplace_back(std::thread(work, std::ref(in), std::ref(out)))
Input(w) ==
    CASE w = 0 -> "que_vacant"
      [] w = 1 -> "que_worker0"
      [] w = 2 -> "que_worker0"
      [] w = 3 -> "que_worker10"
      [] w = 4 -> "que_worker11"

Output(w) ==
    CASE w = 0 -> "que_worker0"
      [] w = 1 -> "que_worker10"
      [] w = 2 -> "que_worker11"
      [] w = 3 -> "que_result"
      [] w = 4 -> "que_result"

\* for (i < resource_num) { resource_pool.emplace_back(...);
\*                          que_vacant.Push(resource_pool.back()); }
Main_Fill ==
    /\ mpc = "fill"
    /\ made < NumResources
    /\ made' = made + 1
    /\ que' = [que EXCEPT !["que_vacant"] = PushOne(@, made + 1, SIZE_MAX)]
    /\ UNCHANGED <<running, mpc, wpc, data, one_queue>>

\* running = true; and the five threads are started
Main_Start ==
    /\ mpc = "fill"
    /\ made = NumResources
    /\ running' = TRUE
    /\ wpc' = [w \in Workers |-> "test"]
    /\ mpc' = "wait"
    /\ UNCHANGED <<que, made, data, one_queue>>

\* while (que_result.Size() < 200): the pool holds 200 resources
ResultIncomplete_orEqual(size) == size <= NumResources
ResultIncomplete(size) == size < NumResources

\* while (que_result.Size() < 200) { printf; Sleep(10); }  running = false;
Main_Wait ==
    /\ mpc = "wait"
    /\ IF ResultIncomplete(Len(que["que_result"]))
       THEN UNCHANGED <<running, mpc>>
       ELSE /\ running' = FALSE
            /\ mpc' = "join"
    /\ UNCHANGED <<que, made, wpc, data, one_queue>>

\* for (auto &worker : workers) worker.join();  and the last printf
Main_Join ==
    /\ mpc = "join"
    /\ \A w \in Workers : wpc[w] = "done"
    /\ mpc' = "end"
    /\ UNCHANGED <<que, running, made, wpc, data, one_queue>>

\* while (running)
Worker_Test(w) ==
    /\ wpc[w] = "test"
    /\ wpc' = [wpc EXCEPT ![w] = IF running THEN "pop" ELSE "done"]
    /\ UNCHANGED <<que, running, made, mpc, data, one_queue>>

\* auto data = que_input.Pop(1);
\* if (data.empty()) { que_input.Sleep(100); continue; }
\* ... processing, Sleep(distrib(gen)) ...
Worker_Pop(w) ==
    /\ wpc[w] = "pop"
    /\ data' = [data EXCEPT ![w] = PopResult(que[Input(w)], 1).ts]
    /\ que' = [que EXCEPT ![Input(w)] = PopResult(@, 1).rest]
    /\ wpc' = [wpc EXCEPT ![w] = IF data'[w] = <<>> THEN "test" ELSE "push"]
    /\ UNCHANGED <<running, made, mpc, one_queue>>

\* que_output.Push(data); and data goes out of scope
Worker_Push(w) ==
    /\ wpc[w] = "push"
    /\ que' = [que EXCEPT ![Output(w)] = PushBatchResult(@, data[w], SIZE_MAX)]
    /\ data' = [data EXCEPT ![w] = <<>>]
    /\ wpc' = [wpc EXCEPT ![w] = "test"]
    /\ UNCHANGED <<running, made, mpc, one_queue>>

Main == Main_Fill \/ Main_Start \/ Main_Wait \/ Main_Join

Worker(w) == Worker_Test(w) \/ Worker_Pop(w) \/ Worker_Push(w)

ExampleNext ==
    \/ Main_Fill
    \/ Main_Start
    \/ Main_Wait
    \/ Main_Join
    \/ \E w \in Workers : Worker_Test(w)
    \/ \E w \in Workers : Worker_Pop(w)
    \/ \E w \in Workers : Worker_Push(w)

\* The example's threads under fair scheduling: each goes on running.
ExampleSpec ==
    /\ Init
    /\ [][ExampleNext]_vars
    /\ WF_vars(Main)
    /\ \A w \in Workers : WF_vars(Worker(w))

\* ------------------------------------------------------------ properties
\* A call of f by t has run to its return statement; t still owns the mutex,
\* so queue_ and max_count_ are what the call leaves behind.
Returning(t, f) == op[t] = f /\ pc[t] = "ret"

\* No call is between two of its steps.
Completed == mutex_ = NoThread \/ \E t \in Threads : pc[t] = "ret"

RECURSIVE IsSubseq(_, _)
IsSubseq(s, u) ==
    IF s = <<>> THEN TRUE
    ELSE IF u = <<>> THEN FALSE
    ELSE IF Head(s) = Head(u) THEN IsSubseq(Tail(s), Tail(u))
    ELSE IsSubseq(s, Tail(u))

NoDuplicates(s) == \A m, n \in 1..Len(s) : m # n => s[m] # s[n]

\* The newest n items of q, in their order.
Newest(q, n) == SubSeq(q, Len(q) - n + 1, Len(q))

\* C1: whenever every call issued so far has completed, by whichever threads
\* and in whatever order, the queue holds at most max_count_ items:
\* Size() <= GetMaxCount().
C1_CapacityInvariant == Completed => Size <= GetMaxCount

C1_Witness ==
    /\ mutex_ = NoThread
    /\ Size = GetMaxCount
    /\ evicted # {}
    /\ popped # <<>>

\* C2: the items handed out by the pops so far, followed by the items still
\* stored, are in the order in which push_back stored them: an item
\* inserted earlier is never popped, nor stored, behind a later one.
C2_Fifo == Completed => IsSubseq(popped \o Ids(queue_), pushed)

C2_Witness ==
    /\ mutex_ = NoThread
    /\ Len(popped) >= 2
    /\ erased # {}
    /\ evicted = {}

\* C3: every item a push stored is in exactly one place: handed out by one
\* pop, evicted, erased (or cleared), or still stored; and when nothing was
\* evicted or erased and the queue is empty, the popped items are exactly
\* the pushed ones.
C3_NoLossNoDuplication ==
    Completed =>
        /\ NoDuplicates(popped \o Ids(queue_))
        /\ NoDuplicates(pushed)
        /\ Range(popped) \cup Range(Ids(queue_)) \cup evicted \cup erased
               = Range(pushed)
        /\ Len(popped) + Len(queue_) + Cardinality(evicted) + Cardinality(erased)
               = Len(pushed)
        /\ (evicted = {} /\ erased = {} /\ Empty) =>
               /\ Len(popped) = Len(pushed)
               /\ Range(popped) = Range(pushed)

C3_Witness ==
    /\ mutex_ = NoThread
    /\ popped # <<>>
    /\ evicted # {}
    /\ erased = {}
    /\ ~Empty
    /\ Len(pushed) = MaxItems

\* C4: Push(item) never fails; called with room it only appends the item,
\* called on a full queue (size = max_count_ >= 1) it drops the oldest item
\* and appends the new one, the size staying at max_count_.
C4_PushEvictsOldest ==
    \A t \in Threads :
        /\ op[t] = "Push" => pc[t] # "ub"
        /\ Returning(t, "Push") =>
            /\ Len(entry_queue[t]) < entry_max[t] =>
                   queue_ = Append(entry_queue[t], arg[t])
            /\ (Len(entry_queue[t]) = entry_max[t] /\ entry_max[t] >= 1) =>
                   /\ queue_ = Append(Tail(entry_queue[t]), arg[t])
                   /\ Size = entry_max[t]
            /\ max_count_ = entry_max[t]

C4_Witness ==
    \E t \in Threads :
        /\ Returning(t, "Push")
        /\ Len(entry_queue[t]) = entry_max[t]
        /\ entry_max[t] > 1

\* C5: Try_Push(item) returns true exactly when the queue had room when the
\* call took the lock, and then the item is the new back; otherwise nothing
\* changes.  The call owns the mutex from its check to its return, and the
\* size never exceeds max_count_ when it returns.
C5_TryPush ==
    \A t \in Threads :
        /\ (op[t] = "Try_Push" /\ pc[t] # "ub") => mutex_ = t
        /\ Returning(t, "Try_Push") =>
            /\ ret[t] <=> Len(entry_queue[t]) < entry_max[t]
            /\ ret[t] => queue_ = Append(entry_queue[t], arg[t])
            /\ ~ret[t] => queue_ = entry_queue[t]
            /\ max_count_ = entry_max[t]
            /\ Size <= GetMaxCount

C5_Witness ==
    \E t \in Threads :
        /\ Returning(t, "Try_Push")
        /\ ~ret[t]
        /\ Len(entry_queue[t]) = MaxCap

\* C6: Try_Push(batch) returns true exactly when the batch fitted, that is
\* when its items were inserted.
C6_TryPushBatchReturn ==
    \A t \in Threads :
        Returning(t, "Try_PushBatch") =>
            (ret[t] <=> Len(batch[t]) + Len(entry_queue[t]) <= entry_max[t])

\* C7: Try_Push(batch) appends the whole batch, in order and removing
\* nothing, when it fits, and leaves the queue as it was when it does not.
C7_TryPushBatchAllOrNothing ==
    \A t \in Threads :
        /\ op[t] = "Try_PushBatch" => pc[t] # "ub"
        /\ Returning(t, "Try_PushBatch") =>
            /\ queue_ =
                IF Len(batch[t]) + Len(entry_queue[t]) <= entry_max[t]
                THEN entry_queue[t] \o batch[t]
                ELSE entry_queue[t]
            /\ max_count_ = entry_max[t]

\* A batch is turned down although the queue had room for a part of it.
C7_Witness ==
    \E t \in Threads :
        /\ Returning(t, "Try_PushBatch")
        /\ entry_queue[t] # <<>>
        /\ Len(entry_queue[t]) < entry_max[t]
        /\ Len(batch[t]) + Len(entry_queue[t]) > entry_max[t]

\* C8: SetMaxCount(n) sets the bound to n and leaves the newest
\* min(old size, n) items in their order; with old size <= n it removes none.
C8_SetMaxCountKeepsNewest ==
    \A t \in Threads :
        Returning(t, "SetMaxCount") =>
            /\ max_count_ = num[t]
            /\ queue_ = Newest(entry_queue[t], Min(Len(entry_queue[t]), num[t]))

\* C9: SetMaxCount(0) returns, with Size() = 0 and GetMaxCount() = 0.
C9_SetMaxCountZero ==
    \A t \in Threads :
        (op[t] = "SetMaxCount" /\ num[t] = 0) =>
            /\ pc[t] # "ub"
            /\ pc[t] = "ret" => (Size = 0 /\ GetMaxCount = 0)

\* C10: Pop(n) returns the min(n, size) front items, oldest first, and
\* leaves the rest in their order; the size drops by the number returned;
\* on an empty queue it returns an empty vector and changes nothing.
C10_PopN ==
    \A t \in Threads :
        /\ op[t] = "PopN" => pc[t] # "ub"
        /\ Returning(t, "PopN") =>
            /\ Len(ts[t]) = Min(num[t], Len(entry_queue[t]))
            /\ ts[t] = SubSeq(entry_queue[t], 1, Len(ts[t]))
            /\ queue_ = SubSeq(entry_queue[t], Len(ts[t]) + 1, Len(entry_queue[t]))
            /\ Size = Len(entry_queue[t]) - Len(ts[t])
            /\ entry_queue[t] = <<>> => (ts[t] = <<>> /\ queue_ = <<>>)
            /\ max_count_ = entry_max[t]

C10_Witness ==
    \E t \in Threads :
        /\ Returning(t, "PopN")
        /\ Len(entry_queue[t]) = 3
        /\ num[t] = 2
        /\ Len(ts[t]) = 2

\* The positions (from 1) of the items of q equal to x.
Matches(q, x) == {n \in 1..Len(q) : Equal(x, q[n])}

\* The least number of a non-empty set of numbers.
Least(S) == CHOOSE n \in S : \A m \in S : n <= m

\* C11: Pop(out) on a non-empty queue returns true, removes the front item
\* and nothing else, and stores it in out when out is given; on an empty
\* queue it returns false and changes neither the queue, nor max_count_,
\* nor out.
C11_Pop ==
    \A t \in Threads :
        /\ op[t] = "Pop" => pc[t] # "ub"
        /\ Returning(t, "Pop") =>
            /\ ret[t] <=> entry_queue[t] # <<>>
            /\ ret[t] =>
                /\ queue_ = Tail(entry_queue[t])
                /\ out[t] = IF want_out[t] THEN Head(entry_queue[t]) ELSE NoItem
            /\ ~ret[t] => (queue_ = entry_queue[t] /\ out[t] = NoItem)
            /\ max_count_ = entry_max[t]

C11_Witness ==
    \E t \in Threads :
        /\ Returning(t, "Pop")
        /\ want_out[t]
        /\ Len(entry_queue[t]) >= 2
        /\ out[t] = Head(entry_queue[t])

\* C12: Erase(v) removes the stored item equal to v that is nearest the
\* front, and only that one, and returns true; the other items, later
\* duplicates of v among them, keep their order.  With no stored item equal
\* to v it returns false and the queue is unchanged.
C12_Erase ==
    \A t \in Threads :
        Returning(t, "Erase") =>
            /\ ret[t] <=> Matches(entry_queue[t], arg[t]) # {}
            /\ ret[t] =>
                /\ queue_ = SubSeq(entry_queue[t], 1,
                                   Least(Matches(entry_queue[t], arg[t])) - 1)
                            \o SubSeq(entry_queue[t],
                                      Least(Matches(entry_queue[t], arg[t])) + 1,
                                      Len(entry_queue[t]))
                /\ Size = Len(entry_queue[t]) - 1
            /\ ~ret[t] => queue_ = entry_queue[t]
            /\ max_count_ = entry_max[t]

\* The erased item is neither the first stored item nor the only equal one.
C12_Witness ==
    \E t \in Threads :
        /\ Returning(t, "Erase")
        /\ ret[t]
        /\ Cardinality(Matches(entry_queue[t], arg[t])) = 2
        /\ 1 \notin Matches(entry_queue[t], arg[t])

\* C13: Clear() leaves the queue empty, whatever it held and whatever the
\* bound is, and leaves max_count_ as it was.
C13_Clear ==
    \A t \in Threads :
        Returning(t, "Clear") => (Size = 0 /\ max_count_ = entry_max[t])

C13_Witness ==
    \E t \in Threads :
        /\ Returning(t, "Clear")
        /\ Len(entry_queue[t]) = MaxCap
        /\ entry_max[t] = MaxCap

\* C15: no thread sleeps inside Pop_Must while it owns mutex_.
C15_NoSleepWithLock ==
    \A t \in Threads : ~(op[t] = "Pop_Must" /\ pc[t] = "pm_sleep" /\ mutex_ = t)

\* C16: a thread inside a member function owns mutex_, so at most one
\* thread is inside one; queue_ and max_count_ change only in steps of the
\* owner, between its taking and its releasing the mutex; and a call starts
\* only when no other call is between two of its steps.
C16_MutualExclusion ==
    /\ [](\A t \in Threads : pc[t] # "idle" => mutex_ = t)
    /\ [][(queue_' # queue_ \/ max_count_' # max_count_) =>
              (mutex_ # NoThread /\ mutex_' = mutex_)]_vars
    /\ [][\A t \in Threads :
              (pc[t] = "idle" /\ pc'[t] # "idle") =>
                  (mutex_ = NoThread /\ \A u \in Threads : pc[u] = "idle")]_vars

\* A Push(batch) has stored the first of its two items and not the second.
C16_Witness ==
    \E t \in Threads :
        /\ op[t] = "PushBatch"
        /\ pc[t] = "pb_loop"
        /\ Len(batch[t]) = 2
        /\ idx[t] = 2
        /\ entry_queue[t] # <<>>
        /\ mutex_ = t

\* Push(x1); ...; Push(xk) on queue q with bound mx.
RECURSIVE PushEach(_, _, _)
PushEach(q, xs, mx) ==
    IF xs = <<>> THEN q ELSE PushEach(PushOne(q, Head(xs), mx), Tail(xs), mx)

\* C17: Push(batch) leaves the queue that pushing the items of the batch one
\* by one with Push(item) leaves.
C17_PushBatchAsSinglePushes ==
    \A t \in Threads :
        Returning(t, "PushBatch") =>
            queue_ = PushEach(entry_queue[t], batch[t], entry_max[t])

\* The items of its batch that the call of t has stored so far.
Inserted(t) ==
    IF op[t] = "Try_PushBatch" THEN (IF idx[t] = 0 THEN 0 ELSE idx[t] - 1)
    ELSE IF op[t] = "PushBatch"
         THEN (IF pc[t] = "pb_evict" THEN idx[t] ELSE idx[t] - 1)
         ELSE 0

BatchCalls == {"Try_PushBatch", "PushBatch"}

\* q with the item at position n taken out.
Without(q, n) == SubSeq(q, 1, n - 1) \o SubSeq(q, n + 1, Len(q))

\* C18: at every step of a batch insertion the items it has stored so far
\* are the last insertions, in batch order, and the queue is the one the
\* call found followed by them (less items evicted at the front); a Pop(n)
\* never overlaps a batch insertion and takes a prefix of the queue it
\* found; and no step of any call changes the queue otherwise than by
\* appending one item at the back, removing one item, or removing all, so
\* that a stored batch stays contiguous and in order.
C18_BatchContiguity ==
    /\ [](\A t \in Threads :
            /\ op[t] \in BatchCalls =>
                LET part == SubSeq(batch[t], 1, Inserted(t))
                    all == entry_queue[t] \o part
                IN  /\ Inserted(t) <= Len(pushed)
                    /\ SubSeq(pushed, Len(pushed) - Inserted(t) + 1, Len(pushed))
                           = Ids(part)
                    /\ \E k \in 0..Len(all) : queue_ = SubSeq(all, k + 1, Len(all))
                    /\ op[t] = "Try_PushBatch" => queue_ = all
            /\ op[t] = "PopN" =>
                /\ \A u \in Threads \ {t} : op[u] \notin BatchCalls
                /\ SubSeq(ts[t], 1, idx[t]) = SubSeq(entry_queue[t], 1, idx[t]))
    /\ [][\/ queue_' = queue_
          \/ queue_' = <<>>
          \/ \E n \in 1..Len(queue_) : queue_' = Without(queue_, n)
          \/ /\ Len(queue_') = Len(queue_) + 1
             /\ SubSeq(queue_', 1, Len(queue_)) = queue_]_vars

\* A batch of two has been accepted behind an item stored before.
C18_Witness ==
    \E t \in Threads :
        /\ Returning(t, "Try_PushBatch")
        /\ Len(batch[t]) = 2
        /\ entry_queue[t] # <<>>
        /\ queue_ = entry_queue[t] \o batch[t]

\* C14: a thread that sleeps in Pop_Must on an empty queue, while another
\* thread still has an item to push, eventually returns true with an item
\* in its output.
C14_PopMustReturns ==
    \A t \in Threads :
        (op[t] = "Pop_Must" /\ pc[t] = "pm_sleep" /\ nextId <= MaxItems)
            ~> (Returning(t, "Pop_Must") /\ ret[t] /\ out[t] # NoItem)

\* Everything that holds a resource, in one sequence: the five queues, then
\* the local vector of each worker.
Places ==
    que["que_vacant"] \o que["que_worker0"] \o que["que_worker10"]
        \o que["que_worker11"] \o que["que_result"]
        \o data[0] \o data[1] \o data[2] \o data[3] \o data[4]

\* C19: in every reachable state of the example each resource created so far
\* is in exactly one place, one of the five queues or the vector of one worker
\* that is between its Pop and its Push; none is lost, evicted or held twice.
C19_PipelineConservation ==
    /\ NoDuplicates(Places)
    /\ Range(Places) = 1..made
    /\ \A w \in Workers :
        /\ Len(data[w]) <= 1
        /\ data[w] # <<>> => wpc[w] = "push"

\* Both workers that pop from que_worker0 hold a resource at the same time.
C19_Witness ==
    /\ data[1] # <<>>
    /\ data[2] # <<>>
    /\ wpc[1] = "push"
    /\ wpc[2] = "push"

\* The example is over: main has joined, the workers have left their loops,
\* que_result holds every resource and the other four queues are empty.
Finished ==
    /\ mpc = "end"
    /\ ~running
    /\ \A w \in Workers : wpc[w] = "done" /\ data[w] = <<>>
    /\ Range(que["que_result"]) = 1..NumResources
    /\ Len(que["que_result"]) = NumResources
    /\ \A q \in Queues \ {"que_result"} : que[q] = <<>>

\* C20: under fair scheduling que_result.Size() reaches the number of
\* resources, main clears running only then, a worker leaves its loop only
\* with running clear and nothing in hand, and the example ends with every
\* resource in que_result and the other four queues empty.
C20_PipelineTermination ==
    /\ <>(running /\ Len(que["que_result"]) = NumResources)
    /\ <>[]Finished
    /\ [][(running /\ ~running') => Len(que["que_result"]) = NumResources]_vars
    /\ [][\A w \in Workers :
            (wpc[w] # "done" /\ wpc'[w] = "done")
                => (~running /\ wpc[w] = "test" /\ data[w] = <<>>)]_vars

\* The final state of the example.
C20_Witness == Finished /\ made = NumResources
====
